---- MODULE Spec2Model ----
(***************************************************************************)
(* Boyer-Moore exact substring search (src/Boyer-Moore.cpp): the           *)
(* bad-character table, the good-suffix shift table and the scan loop.     *)
(*                                                                         *)
(* Strings are sequences of char values; At(s, k) is the source's s[k]     *)
(* (0-based).  Vectors are functions over 0..size-1, so a vector index is  *)
(* the source's index.  An access outside a string or a vector is          *)
(* undefined behaviour: the model records it (oob) and stops that run in   *)
(* pc "fault", since any outcome may follow it.                            *)
(***************************************************************************)
EXTENDS Integers, Sequences, FiniteSets

VARIABLES
    call,               \* the function the caller invoked
    pattern, text,      \* its arguments
    pc,                 \* where the call is
    badCharTable,       \* std::vector<int> badCharTable
    gs,                 \* the frame of precomputeGoodSuffixTable
    shift, found, totalSkippedChars, step, matchedIndex,
                        \* locals of searchBoyerMoore (lines 133-147)
    degenerate,         \* the message of line 128 was written
    oob                 \* searchBoyerMoore made an access out of bounds

vars == <<call, pattern, text, pc, badCharTable, gs, shift, found,
          totalSkippedChars, step, matchedIndex, degenerate, oob>>

\* ------------------------------------------------------------------ bounds
\* Longest pattern handed directly to a table builder.
MaxPatternLen == 5
\* Longest pattern and text handed to searchBoyerMoore.
MaxSearchPatternLen == 3
MaxTextLen == 4

\* Size of the bad-character table (line 10).
NUM_CHARS == 256

\* char values: 'A', 'B' and a byte above 0x7f, which is negative where
\* char is signed; (unsigned char) maps every one of them into 0..255.
Alphabet == {65, 66, -61}

Strings(k) == UNION {[1..len -> Alphabet] : len \in 0..k}

\* ----------------------------------------------------------------- helpers
\* std::string::operator[] with the source's 0-based index.
At(s, k) == s[k + 1]

InString(s, k) == 0 <= k /\ k < Len(s)

\* std::max
Max(a, b) == IF a >= b THEN a ELSE b

\* (unsigned char)c
ToUnsignedChar(c) == c % NUM_CHARS

\* std::vector<int>::assign(size, value) / std::vector<int>(size)
Vector(size, value) == [k \in 0..(size - 1) |-> value]

\* --------------------------------------------- precomputeBadCharacterTable
\* Faulty variant: the first occurrence of a symbol is kept, not the last.
RECURSIVE BadCharLoopKeepFirst(_, _, _)
BadCharLoopKeepFirst(pat, i, table) ==
    IF i < Len(pat)
    THEN BadCharLoopKeepFirst(pat, i + 1,
             IF table[ToUnsignedChar(At(pat, i))] = -1
             THEN [table EXCEPT ![ToUnsignedChar(At(pat, i))] = i]
             ELSE table)
    ELSE table

\* for (int i = 0; i < patternLength; ++i) badCharTable[(unsigned char)pattern[i]] = i;
RECURSIVE BadCharLoop(_, _, _)
BadCharLoop(pat, i, table) ==
    IF i < Len(pat)
    THEN BadCharLoop(pat, i + 1,
             [table EXCEPT ![ToUnsignedChar(At(pat, i))] = i])
    ELSE table

BadCharacterTable(pat) == BadCharLoop(pat, 0, Vector(NUM_CHARS, -1))

\* ----------------------------------------------- precomputeGoodSuffixTable
\* The function's frame: its locals m, i, j, borderPos, the vector
\* goodSuffixShifts it fills through its reference parameter, and the place
\* it is at: "outer" (line 84), "inner" (line 88), "advance" (line 98),
\* "fill" (line 106), "return" (line 114).
NoFrame ==
    [pc |-> "none", m |-> 0, i |-> 0, j |-> 0,
     goodSuffixShifts |-> << >>, borderPos |-> << >>, oob |-> FALSE]

Fault(l) == [l EXCEPT !.pc = "fault", !.oob = TRUE]

\* Faulty variant: j starts at m instead of m + 1.
GSEntryStartAtM(pat) ==
    LET m == Len(pat)
    IN  [pc |-> "outer", m |-> m, i |-> m, j |-> m,
         goodSuffixShifts |-> Vector(m + 1, 0),
         borderPos |-> [Vector(m + 1, 0) EXCEPT ![m] = m],
         oob |-> FALSE]

\* Lines 72-81.
GSEntry(pat) ==
    LET m == Len(pat)
    IN  [pc |-> "outer", m |-> m, i |-> m, j |-> m + 1,
         goodSuffixShifts |-> Vector(m + 1, 0),
         borderPos |-> [Vector(m + 1, 0) EXCEPT ![m] = m + 1],
         oob |-> FALSE]

\* Faulty variant: the fill pass starts from m instead of borderPos[0].
GSOuterIgnoreBorder(l) ==
    IF l.i > 0
    THEN [l EXCEPT !.pc = "inner"]
    ELSE [l EXCEPT !.pc = "fill", !.i = 0, !.j = l.m]

\* Line 84: while (i > 0); on exit lines 105-106: j = borderPos[0], i = 0.
GSOuter(l) ==
    IF l.i > 0
    THEN [l EXCEPT !.pc = "inner"]
    ELSE IF 0 \in DOMAIN l.borderPos
         THEN [l EXCEPT !.pc = "fill", !.i = 0, !.j = l.borderPos[0]]
         ELSE Fault(l)

\* Faulty variant: the operands of line 92 swapped.
CandidateShiftSwapped(i, j) == i - j

\* Line 92: the candidate shift j - i.
CandidateShift(i, j) == j - i

\* Faulty variant: line 91's test dropped, a set slot is overwritten.
GSInnerOverwrite(l, pat) ==
    IF l.j <= l.m
    THEN IF ~InString(pat, l.i - 1) \/ ~InString(pat, l.j - 1)
         THEN Fault(l)
         ELSE IF At(pat, l.i - 1) # At(pat, l.j - 1)
              THEN IF l.j \notin DOMAIN l.goodSuffixShifts
                      \/ l.j \notin DOMAIN l.borderPos
                   THEN Fault(l)
                   ELSE [l EXCEPT
                            !.goodSuffixShifts[l.j] = CandidateShift(l.i, l.j),
                            !.j = l.borderPos[l.j]]
              ELSE [l EXCEPT !.pc = "advance"]
    ELSE [l EXCEPT !.pc = "advance"]

\* Lines 88-96: one evaluation of the inner loop's condition and, when it
\* holds, one run of its body.
GSInner(l, pat) ==
    IF l.j <= l.m
    THEN IF ~InString(pat, l.i - 1) \/ ~InString(pat, l.j - 1)
         THEN Fault(l)
         ELSE IF At(pat, l.i - 1) # At(pat, l.j - 1)
              THEN IF l.j \notin DOMAIN l.goodSuffixShifts
                      \/ l.j \notin DOMAIN l.borderPos
                   THEN Fault(l)
                   ELSE [l EXCEPT
                            !.goodSuffixShifts[l.j] =
                                IF l.goodSuffixShifts[l.j] = 0
                                THEN CandidateShift(l.i, l.j)
                                ELSE l.goodSuffixShifts[l.j],
                            !.j = l.borderPos[l.j]]
              ELSE [l EXCEPT !.pc = "advance"]
    ELSE [l EXCEPT !.pc = "advance"]

\* Lines 98-101: i--; j--; borderPos[i] = j.
GSAdvance(l) ==
    IF (l.i - 1) \in DOMAIN l.borderPos
    THEN [l EXCEPT !.pc = "outer", !.i = l.i - 1, !.j = l.j - 1,
                   !.borderPos[l.i - 1] = l.j - 1]
    ELSE Fault(l)

\* Faulty variant: the fill pass left out.
GSFillSkipped(l) == [l EXCEPT !.pc = "return"]

\* Lines 106-113: one evaluation of the fill loop's condition and, when it
\* holds, one run of its body followed by ++i.
GSFill(l) ==
    IF l.i <= l.m
    THEN IF l.i \notin DOMAIN l.goodSuffixShifts
            \/ (l.i = l.j /\ l.j \notin DOMAIN l.borderPos)
         THEN Fault(l)
         ELSE [l EXCEPT
                  !.goodSuffixShifts[l.i] =
                      IF l.goodSuffixShifts[l.i] = 0
                      THEN l.j ELSE l.goodSuffixShifts[l.i],
                  !.j = IF l.i = l.j THEN l.borderPos[l.j] ELSE l.j,
                  !.i = l.i + 1]
    ELSE [l EXCEPT !.pc = "return"]

GSStep(l, pat) ==
    CASE l.pc = "outer"   -> GSOuter(l)
      [] l.pc = "inner"   -> GSInner(l, pat)
      [] l.pc = "advance" -> GSAdvance(l)
      [] l.pc = "fill"    -> GSFill(l)
      [] OTHER            -> l

\* The frame when the function returns (or faults): the call run to its end.
RECURSIVE GSRun(_, _)
GSRun(l, pat) ==
    IF l.pc \in {"return", "fault"} THEN l ELSE GSRun(GSStep(l, pat), pat)

GoodSuffixFrame(pat) == GSRun(GSEntry(pat), pat)

\* -------------------------------------------------------- searchBoyerMoore
\* Faulty variant: the empty pattern is not caught.
IsDegenerateLongerOnly(n, m) == n < m

\* Line 127: if (m == 0 || n < m)
IsDegenerate(n, m) == m = 0 \/ n < m

\* Faulty variant: the loop runs while shift is inside the text.
LoopCondWholeText(s, n, m) == s <= n - 1

\* Line 150: while (shift <= (n - m))
LoopCond(s, n, m) == s <= n - m

\* Lines 152-162: the right-to-left comparison from cursor j; the cursor it
\* stops at (-1 after a full match) and whether a read was out of bounds.
RECURSIVE Compare(_, _, _, _)
Compare(p, t, s, j) ==
    IF j >= 0
    THEN IF ~InString(p, j) \/ ~InString(t, s + j)
         THEN [j |-> j, oob |-> TRUE]
         ELSE IF At(p, j) = At(t, s + j)
              THEN Compare(p, t, s, j - 1)
              ELSE [j |-> j, oob |-> FALSE]
    ELSE [j |-> j, oob |-> FALSE]

\* Faulty variant: the last slot is read instead of slot 0.
FullMatchShiftLastSlot(shifts) == shifts[Cardinality(DOMAIN shifts) - 1]

\* Line 170: int finalShift = goodSuffixShifts[0];
FullMatchShift(shifts) == shifts[0]

\* Line 185: std::max(1, j - badCharTable[...])
BadCharShift(j, last) == Max(1, j - last)

\* Faulty variant: the two shifts are added.
FinalShiftSum(badCharShift, goodSuffixShift) == badCharShift + goodSuffixShift

\* Line 191: std::max(badCharShift, goodSuffixShift)
FinalShift(badCharShift, goodSuffixShift) == Max(badCharShift, goodSuffixShift)

\* Lines 175 and 198.
Skipped(total, finalShift, newShift, n, m) ==
    IF finalShift > 1 /\ newShift <= n - m THEN total + finalShift - 1 ELSE total

\* ------------------------------------------------------------------ actions
Search == "searchBoyerMoore"
BuildBadChar == "precomputeBadCharacterTable"
BuildGoodSuffix == "precomputeGoodSuffixTable"

Init ==
    /\ call \in {Search, BuildBadChar, BuildGoodSuffix}
    /\ IF call = Search
       THEN pattern \in Strings(MaxSearchPatternLen) /\ text \in Strings(MaxTextLen)
       ELSE pattern \in Strings(MaxPatternLen) /\ text = << >>
    /\ pc = CASE call = Search -> "entry"
              [] call = BuildBadChar -> "bad"
              [] call = BuildGoodSuffix -> "gs"
    /\ badCharTable = << >>
    /\ gs = NoFrame
    /\ shift = 0
    /\ found = FALSE
    /\ totalSkippedChars = 0
    /\ step = 1
    /\ matchedIndex = << >>
    /\ degenerate = FALSE
    /\ oob = FALSE

\* Lines 123-130.
SearchEntry ==
    /\ pc = "entry"
    /\ IF IsDegenerate(Len(text), Len(pattern))
       THEN degenerate' = TRUE /\ pc' = "done"
       ELSE degenerate' = FALSE /\ pc' = "bad"
    /\ UNCHANGED <<call, pattern, text, badCharTable, gs, shift, found,
                   totalSkippedChars, step, matchedIndex, oob>>

\* Lines 44-53, called directly or from line 137.
PrecomputeBadCharacterTable ==
    /\ pc = "bad"
    /\ badCharTable' = BadCharacterTable(pattern)
    /\ pc' = IF call = Search THEN "gs" ELSE "done"
    /\ UNCHANGED <<call, pattern, text, gs, shift, found, totalSkippedChars,
                   step, matchedIndex, degenerate, oob>>

\* Line 141: the call of precomputeGoodSuffixTable from the search, whole.
SearchPrecomputeGoodSuffixTable ==
    /\ pc = "gs"
    /\ call = Search
    /\ LET frame == GoodSuffixFrame(pattern)
       IN  /\ gs' = frame
           /\ pc' = IF frame.pc = "fault" THEN "fault" ELSE "loop"
    /\ UNCHANGED <<call, pattern, text, badCharTable, shift, found,
                   totalSkippedChars, step, matchedIndex, degenerate, oob>>

\* Where the caller of precomputeGoodSuffixTable is once its frame is l.
AfterStep(l) ==
    CASE l.pc = "return" -> "done"
      [] l.pc = "fault"  -> "fault"
      [] OTHER           -> "in_gs"

\* A direct call of precomputeGoodSuffixTable, one step at a time.
GSEnter ==
    /\ pc = "gs"
    /\ call = BuildGoodSuffix
    /\ gs' = GSEntry(pattern)
    /\ pc' = "in_gs"
    /\ UNCHANGED <<call, pattern, text, badCharTable, shift, found,
                   totalSkippedChars, step, matchedIndex, degenerate, oob>>

GSOuterStep ==
    /\ pc = "in_gs"
    /\ gs.pc = "outer"
    /\ LET frame == GSOuter(gs)
       IN  gs' = frame /\ pc' = AfterStep(frame)
    /\ UNCHANGED <<call, pattern, text, badCharTable, shift, found,
                   totalSkippedChars, step, matchedIndex, degenerate, oob>>

GSInnerStep ==
    /\ pc = "in_gs"
    /\ gs.pc = "inner"
    /\ LET frame == GSInner(gs, pattern)
       IN  gs' = frame /\ pc' = AfterStep(frame)
    /\ UNCHANGED <<call, pattern, text, badCharTable, shift, found,
                   totalSkippedChars, step, matchedIndex, degenerate, oob>>

GSAdvanceStep ==
    /\ pc = "in_gs"
    /\ gs.pc = "advance"
    /\ LET frame == GSAdvance(gs)
       IN  gs' = frame /\ pc' = AfterStep(frame)
    /\ UNCHANGED <<call, pattern, text, badCharTable, shift, found,
                   totalSkippedChars, step, matchedIndex, degenerate, oob>>

GSFillStep ==
    /\ pc = "in_gs"
    /\ gs.pc = "fill"
    /\ LET frame == GSFill(gs)
       IN  gs' = frame /\ pc' = AfterStep(frame)
    /\ UNCHANGED <<call, pattern, text, badCharTable, shift, found,
                   totalSkippedChars, step, matchedIndex, degenerate, oob>>

\* Lines 150-179: one alignment that ends in a full match.
ScanFullMatch ==
    /\ pc = "loop"
    /\ LoopCond(shift, Len(text), Len(pattern))
    /\ LET c == Compare(pattern, text, shift, Len(pattern) - 1)
       IN  /\ ~c.oob
           /\ c.j < 0
           /\ IF 0 \notin DOMAIN gs.goodSuffixShifts
              THEN /\ oob' = TRUE
                   /\ pc' = "fault"
                   /\ UNCHANGED <<shift, found, totalSkippedChars, step>>
                   /\ matchedIndex' = Append(matchedIndex, shift)
              ELSE LET finalShift == FullMatchShift(gs.goodSuffixShifts)
                   IN  /\ matchedIndex' = Append(matchedIndex, shift)
                       /\ shift' = shift + finalShift
                       /\ totalSkippedChars' =
                              Skipped(totalSkippedChars, finalShift, shift',
                                      Len(text), Len(pattern))
                       /\ found' = TRUE
                       /\ step' = step + 1
                       /\ UNCHANGED <<pc, oob>>
    /\ UNCHANGED <<call, pattern, text, badCharTable, gs, degenerate>>

\* Lines 150-162 and 181-200: one alignment that ends in a mismatch.
ScanMismatch ==
    /\ pc = "loop"
    /\ LoopCond(shift, Len(text), Len(pattern))
    /\ LET c == Compare(pattern, text, shift, Len(pattern) - 1)
       IN  /\ c.oob \/ c.j >= 0
           /\ IF \/ c.oob
                 \/ ~InString(text, shift + c.j)
                 \/ ToUnsignedChar(At(text, shift + c.j)) \notin DOMAIN badCharTable
                 \/ (c.j + 1) \notin DOMAIN gs.goodSuffixShifts
              THEN /\ oob' = TRUE
                   /\ pc' = "fault"
                   /\ UNCHANGED <<shift, totalSkippedChars, step>>
              ELSE LET badCharShift ==
                           BadCharShift(c.j,
                               badCharTable[ToUnsignedChar(At(text, shift + c.j))])
                       goodSuffixShift == gs.goodSuffixShifts[c.j + 1]
                       finalShift == FinalShift(badCharShift, goodSuffixShift)
                   IN  /\ shift' = shift + finalShift
                       /\ totalSkippedChars' =
                              Skipped(totalSkippedChars, finalShift, shift',
                                      Len(text), Len(pattern))
                       /\ step' = step + 1
                       /\ UNCHANGED <<pc, oob>>
    /\ UNCHANGED <<call, pattern, text, badCharTable, gs, found, matchedIndex,
                   degenerate>>

\* Line 150 false: lines 205-216, the function returns.
ScanExit ==
    /\ pc = "loop"
    /\ ~LoopCond(shift, Len(text), Len(pattern))
    /\ pc' = "done"
    /\ UNCHANGED <<call, pattern, text, badCharTable, gs, shift, found,
                   totalSkippedChars, step, matchedIndex, degenerate, oob>>

Next ==
    \/ SearchEntry
    \/ PrecomputeBadCharacterTable
    \/ SearchPrecomputeGoodSuffixTable
    \/ GSEnter
    \/ GSOuterStep
    \/ GSInnerStep
    \/ GSAdvanceStep
    \/ GSFillStep
    \/ ScanFullMatch
    \/ ScanMismatch
    \/ ScanExit

Spec == Init /\ [][Next]_vars

\* ------------------------------------------------- reference definitions
Range(seq) == {seq[x] : x \in DOMAIN seq}

Ascending(seq) == \A a, b \in DOMAIN seq : a < b => seq[a] < seq[b]

\* t[k .. k+Len(p)-1] = p
Occurs(t, p, k) == \A x \in 0..(Len(p) - 1) : At(t, k + x) = At(p, x)

\* The naive scan: every offset at which p occurs in t.
Occurrences(t, p) == {k \in 0..(Len(t) - Len(p)) : Occurs(t, p, k)}

SetMax(S) == CHOOSE x \in S : \A y \in S : y <= x

SetMin(S) == CHOOSE x \in S : \A y \in S : x <= y

\* p has a border of length b: its first b symbols are its last b symbols.
IsBorder(p, b) == \A x \in 0..(b - 1) : At(p, x) = At(p, Len(p) - b + x)

\* The length of the widest proper border of p (0: none but the empty one).
WidestBorder(p) == SetMax({b \in 0..(Len(p) - 1) : IsBorder(p, b)})

\* The strong good-suffix rule admits shift d after a mismatch at k - 1.
StrongShiftOk(p, k, d) ==
    /\ \A x \in k..(Len(p) - 1) : x - d >= 0 => At(p, x - d) = At(p, x)
    /\ k - 1 - d < 0 \/ At(p, k - 1 - d) # At(p, k - 1)

StrongShift(p, k) == SetMin({d \in 1..Len(p) : StrongShiftOk(p, k, d)})

NonDegenerate == Len(pattern) >= 1 /\ Len(pattern) <= Len(text)

\* ------------------------------------------------------------------ claims
\* C1: when searchBoyerMoore returns for 1 <= m <= n, the offsets in
\* matchedIndex are exactly the offsets at which the pattern occurs in the
\* text: none missing (overlapping ones included), none spurious.
C1_MatchesAreOccurrences ==
    (call = Search /\ pc = "done" /\ NonDegenerate)
        => Range(matchedIndex) = Occurrences(text, pattern)

C1_Witness ==
    /\ call = Search /\ pc = "done"
    /\ text = <<65, 65, 65, 65>> /\ pattern = <<65, 65>>
    /\ matchedIndex = <<0, 1, 2>>

\* C2: for an empty pattern or a pattern longer than the text,
\* searchBoyerMoore only signals the degenerate input and returns: no table
\* is built, no alignment step runs, no offset is recorded, nothing faults.
C2_DegenerateReturnsAtOnce ==
    (call = Search /\ (Len(pattern) = 0 \/ Len(text) < Len(pattern)))
        => /\ pc \in {"entry", "done"}
           /\ pc = "done" => degenerate
           /\ badCharTable = << >>
           /\ gs = NoFrame
           /\ matchedIndex = << >>
           /\ shift = 0 /\ step = 1 /\ ~found
           /\ ~oob

C2_Witness ==
    /\ call = Search /\ pc = "done" /\ degenerate
    /\ pattern = << >> /\ text = <<65, 65>>
    /\ matchedIndex = << >>

\* C3: the table precomputeBadCharacterTable builds has NUM_CHARS entries;
\* the entry of a symbol is the greatest index it occurs at in the pattern,
\* and -1 when it does not occur (so all -1 for the empty pattern).
C3_BadCharTableIsLastIndex ==
    (\/ call = BuildBadChar /\ pc = "done"
     \/ call = Search /\ pc = "gs")
        => /\ DOMAIN badCharTable = 0..(NUM_CHARS - 1)
           /\ \A c \in 0..(NUM_CHARS - 1) :
                  LET at == {x \in 0..(Len(pattern) - 1) :
                                 ToUnsignedChar(At(pattern, x)) = c}
                  IN  badCharTable[c] = IF at = {} THEN -1 ELSE SetMax(at)

C3_Witness ==
    /\ call = BuildBadChar /\ pc = "done"
    /\ pattern = <<65, -61, 65, -61>>
    /\ badCharTable[65] = 2 /\ badCharTable[195] = 3 /\ badCharTable[66] = -1

\* C4: for a nonempty pattern of length m the finished good-suffix table has
\* the m+1 entries 0..m and every entry is in 1..m.
C4_ShiftsInRange ==
    (gs.pc = "return" /\ Len(pattern) >= 1)
        => /\ DOMAIN gs.goodSuffixShifts = 0..Len(pattern)
           /\ \A k \in 0..Len(pattern) :
                  gs.goodSuffixShifts[k] \in 1..Len(pattern)

C4_Witness ==
    /\ call = BuildGoodSuffix /\ gs.pc = "return"
    /\ pattern = <<65, 66, 65, 66>>
    /\ gs.goodSuffixShifts[4] = 1

\* C5: for a nonempty pattern of length m, slot 0 of the finished table is
\* m - b, b the length of the widest proper border of the pattern.
C5_SlotZeroIsPeriod ==
    (gs.pc = "return" /\ Len(pattern) >= 1)
        => gs.goodSuffixShifts[0] = Len(pattern) - WidestBorder(pattern)

C5_Witness ==
    /\ call = BuildGoodSuffix /\ gs.pc = "return"
    /\ pattern = <<65, 66, 65>>
    /\ gs.goodSuffixShifts[0] = 2

\* C6: every completed iteration of the scan loop moves shift forward by at
\* least 1, and the recorded offsets are strictly ascending.
C6_ShiftStrictlyIncreases ==
    [][(call = Search /\ pc = "loop" /\ pc' = "loop")
          => (shift' >= shift + 1 /\ Ascending(matchedIndex'))]_vars

C6_Witness ==
    /\ call = Search /\ pc = "loop"
    /\ text = <<65, 65, 65, 65>> /\ pattern = <<65, 65>>
    /\ matchedIndex = <<0, 1>> /\ shift = 2

\* C7: for 1 <= m <= n the scan loop terminates after at most n - m + 1
\* iterations, leaving exactly when shift > n - m: while shift <= n - m an
\* iteration can run and none faults, the iterations run so far never exceed
\* shift, and once shift > n - m the loop is left and the call returns.
C7_ScanTerminates ==
    (call = Search /\ NonDegenerate)
        => /\ pc \in {"entry", "bad", "gs", "loop", "done"}
           /\ step - 1 <= Len(text) - Len(pattern) + 1
           /\ pc = "loop" => step - 1 <= shift
           /\ (pc = "loop" /\ shift <= Len(text) - Len(pattern))
                  => ENABLED (ScanFullMatch \/ ScanMismatch)
           /\ (pc = "loop" /\ shift > Len(text) - Len(pattern))
                  => ENABLED ScanExit
           /\ pc = "done" => shift > Len(text) - Len(pattern)

C7_Witness ==
    /\ call = Search /\ pc = "done" /\ NonDegenerate
    /\ Len(text) - Len(pattern) + 1 >= 3
    /\ step - 1 = Len(text) - Len(pattern) + 1

\* C8: for a nonempty pattern and k in 1..m, entry k of the finished table
\* is the least shift the strong good-suffix rule admits.
C8_StrongGoodSuffixRule ==
    (gs.pc = "return" /\ Len(pattern) >= 1)
        => \A k \in 1..Len(pattern) :
               gs.goodSuffixShifts[k] = StrongShift(pattern, k)

C8_Witness ==
    /\ call = BuildGoodSuffix /\ gs.pc = "return"
    /\ pattern = <<66, 65, 65>>
    /\ gs.goodSuffixShifts[2] = 1

\* C9: at the head of every iteration of the scan loop matchedIndex holds
\* exactly the occurrences at offsets below shift: no shift skipped one.
C9_NoOccurrenceSkipped ==
    (call = Search /\ pc = "loop")
        => Range(matchedIndex) =
               {k \in Occurrences(text, pattern) : k < shift}

C9_Witness ==
    /\ call = Search /\ pc = "loop"
    /\ step = 2 /\ shift = 2 /\ matchedIndex = << >>
    /\ LoopCond(shift, Len(text), Len(pattern))
    /\ Occurs(text, pattern, 2)

\* C10: every indexed access is in bounds.  In precomputeGoodSuffixTable the
\* reads pattern[i-1], pattern[j-1] have 1 <= i, j <= m, the vectors are
\* indexed within 0..m, and borderPos[j] > j for every j of the inner loop;
\* in searchBoyerMoore text[shift+j] stays inside the text for every cursor
\* of an alignment, and no call ever records an access out of bounds.
C10_AccessesInBounds ==
    /\ ~oob /\ ~gs.oob /\ pc # "fault"
    /\ (gs.pc = "inner" /\ gs.j <= gs.m)
           => /\ 1 <= gs.i /\ gs.i <= Len(pattern)
              /\ 1 <= gs.j /\ gs.j <= Len(pattern)
              /\ gs.j \in DOMAIN gs.goodSuffixShifts
              /\ gs.j \in DOMAIN gs.borderPos
              /\ gs.borderPos[gs.j] > gs.j
    /\ gs.pc = "advance" => (gs.i - 1) \in DOMAIN gs.borderPos
    /\ (gs.pc = "fill" /\ gs.i <= gs.m)
           => /\ gs.i \in DOMAIN gs.goodSuffixShifts
              /\ gs.i = gs.j => gs.j \in DOMAIN gs.borderPos
    /\ gs.pc \in {"outer", "inner", "advance", "fill", "return"}
           => /\ DOMAIN gs.goodSuffixShifts = 0..Len(pattern)
              /\ DOMAIN gs.borderPos = 0..Len(pattern)
    /\ (call = Search /\ pc = "loop"
            /\ LoopCond(shift, Len(text), Len(pattern)))
           => /\ \A x \in 0..(Len(pattern) - 1) :
                     0 <= shift + x /\ shift + x < Len(text)
              /\ DOMAIN badCharTable = 0..(NUM_CHARS - 1)
              /\ \A x \in 0..(Len(pattern) - 1) :
                     /\ (x + 1) \in DOMAIN gs.goodSuffixShifts
                     /\ ToUnsignedChar(At(text, shift + x)) \in DOMAIN badCharTable

C10_Witness ==
    /\ call = BuildGoodSuffix /\ pc = "in_gs" /\ gs.pc = "inner"
    /\ gs.j <= gs.m
    /\ At(pattern, gs.i - 1) # At(pattern, gs.j - 1)
    /\ gs.borderPos[gs.j] <= gs.m

====
